---------------------------- MODULE Spec2Model ----------------------------
(***************************************************************************)
(* Recipe recommender chatbot: the session loop of chatbot.py, the intent  *)
(* recognizer of utils/intent.py, the recipe filter of utils/filter.py and *)
(* the corpus / vocabulary construction of utils/preprocess.py and         *)
(* utils/model.py.                                                         *)
(*                                                                         *)
(* Text is modelled as text: a Python str is a TLA+ string, taken apart    *)
(* character by character with Len, SubSeq and \o, so that lower(),        *)
(* strip(), split(), re.findall(r'\w+'), re.sub with \b boundaries and the *)
(* `in' substring test are computed the way the code computes them.        *)
(***************************************************************************)
EXTENDS Integers, Sequences, FiniteSets, TLC

(***************************************************************************)
(* Python str primitives                                                   *)
(***************************************************************************)
UpperLetters == "ABCDEFGHIJKLMNOPQRSTUVWXYZ"
LowerLetters == "abcdefghijklmnopqrstuvwxyz"
Digits == "0123456789"

Ch(s, i) == SubSeq(s, i, i)

CharsOf(s) == { Ch(s, i) : i \in 1..Len(s) }

UpperSet == CharsOf(UpperLetters)
LowerSet == CharsOf(LowerLetters)
DigitSet == CharsOf(Digits)

\* \w of the re module on the characters of the model: letters, digits, underscore
WordCharSet == UpperSet \cup LowerSet \cup DigitSet \cup {"_"}

\* str.isspace on the characters of the model
SpaceSet == {" "}

IndexIn(alphabet, c) == CHOOSE i \in 1..Len(alphabet) : Ch(alphabet, i) = c

LowerCh(c) == IF c \in UpperSet THEN Ch(LowerLetters, IndexIn(UpperLetters, c)) ELSE c

UpperCh(c) == IF c \in LowerSet THEN Ch(UpperLetters, IndexIn(LowerLetters, c)) ELSE c

RECURSIVE Lower(_)
\* str.lower()
Lower(s) == IF s = "" THEN "" ELSE LowerCh(Ch(s, 1)) \o Lower(SubSeq(s, 2, Len(s)))

RECURSIVE LStrip(_)
LStrip(s) ==
    IF s # "" /\ Ch(s, 1) \in SpaceSet THEN LStrip(SubSeq(s, 2, Len(s))) ELSE s

RECURSIVE RStrip(_)
RStrip(s) ==
    IF s # "" /\ Ch(s, Len(s)) \in SpaceSet THEN RStrip(SubSeq(s, 1, Len(s) - 1)) ELSE s

\* str.strip()
Strip(s) == RStrip(LStrip(s))

\* s[i:].startswith(p)
StartsAt(s, i, p) == i + Len(p) - 1 <= Len(s) /\ SubSeq(s, i, i + Len(p) - 1) = p

StartsWith(s, p) == StartsAt(s, 1, p)

\* the Python test `sub in s' on two str
Contains(sub, s) == \E i \in 1..(Len(s) + 1) : StartsAt(s, i, sub)

RECURSIVE Runs(_, _, _, _)
\* the maximal runs of characters of s that are (not) in the set seps
Runs(s, i, cur, seps) ==
    IF i > Len(s) THEN (IF cur = "" THEN <<>> ELSE <<cur>>)
    ELSE IF Ch(s, i) \in seps
         THEN (IF cur = "" THEN <<>> ELSE <<cur>>) \o Runs(s, i + 1, "", seps)
         ELSE Runs(s, i + 1, cur \o Ch(s, i), seps)

\* re.findall(r'\w+', s)
FindWords(s) == Runs(s, 1, "", CharsOf(s) \ WordCharSet)

\* str.split() with no argument
Split(s) == Runs(s, 1, "", SpaceSet)

RECURSIVE Join(_, _)
\* sep.join(words)
Join(sep, words) ==
    IF words = <<>> THEN ""
    ELSE IF Len(words) = 1 THEN words[1]
    ELSE words[1] \o sep \o Join(sep, Tail(words))

Range(f) == { f[i] : i \in DOMAIN f }

RECURSIVE SelectList(_, _)
\* [x for x in seq if x in keep]
SelectList(seq, keep) ==
    IF seq = <<>> THEN <<>>
    ELSE (IF Head(seq) \in keep THEN <<Head(seq)>> ELSE <<>>) \o SelectList(Tail(seq), keep)

\* a \b of the re module at the gap before position i of s (1 <= i <= Len(s) + 1)
Boundary(s, i) ==
    LET before == i > 1 /\ Ch(s, i - 1) \in WordCharSet
        after == i <= Len(s) /\ Ch(s, i) \in WordCharSet
    IN before # after

\* the pattern p (literal characters, `.' any character) matches s at i
PatternAt(s, i, p) ==
    /\ i + Len(p) - 1 <= Len(s)
    /\ \A k \in 1..Len(p) : Ch(p, k) = "." \/ Ch(p, k) = Ch(s, i + k - 1)

\* r'\b' + p + r'\b' matches s at i
WordMatchAt(s, i, p) ==
    /\ PatternAt(s, i, p)
    /\ Boundary(s, i)
    /\ Boundary(s, i + Len(p))

RECURSIVE ReSubWord(_, _, _)
\* re.sub(r'\b' + re.escape(phrase) + r'\b', '', s), scanning from position i
ReSubWord(phrase, s, i) ==
    IF i > Len(s) THEN ""
    ELSE IF StartsAt(s, i, phrase) /\ Boundary(s, i) /\ Boundary(s, i + Len(phrase))
         THEN ReSubWord(phrase, s, i + Len(phrase))
         ELSE Ch(s, i) \o ReSubWord(phrase, s, i + 1)


Min(a, b) == IF a <= b THEN a ELSE b

None == "None"

(***************************************************************************)
(* utils/intent.py: cleaning                                               *)
(***************************************************************************)
FILLER_PHRASES ==
    << "give me", "show me", "can i have", "i want", "i'd like", "please",
       "could you", "would you", "may i have", "let me have", "find me",
       "get me", "i need", "i would like", "i'm looking for", "do you have",
       "i'd love", "i'd want", "i wish for", "i wish to have", "i wish to get",
       "i wish to see", "recipe", "recipes" >>

\* sklearn's ENGLISH_STOP_WORDS, restricted to the words that text built from
\* the filler phrases and the lexicon of the model can contain
ENGLISH_STOP_WORDS ==
    { "the", "a", "i", "me", "you", "your", "how", "are", "and", "for", "to",
      "can", "have", "could", "would", "may", "do", "give", "show", "find",
      "get", "see", "please", "with", "some" }

RECURSIVE RemoveFillers(_, _)
\* for phrase in FILLER_PHRASES: cleaned = re.sub(...)
RemoveFillers(cleaned, k) ==
    IF k > Len(FILLER_PHRASES) THEN cleaned
    ELSE RemoveFillers(ReSubWord(FILLER_PHRASES[k], cleaned, 1), k + 1)

clean_user_input(user_input) ==
    LET cleaned == RemoveFillers(Lower(user_input), 1)
        found == FindWords(cleaned)
        words == SelectList(found, Range(found) \ ENGLISH_STOP_WORDS)
    IN Join(" ", words)

\* the validation of recognize_intent: `not user_input_cleaned.strip()'
NoValidation(user_input_cleaned) == FALSE

IsBlank(user_input_cleaned) == Strip(user_input_cleaned) = ""

(***************************************************************************)
(* utils/intent.py: similarity matching.  The sentence encoder is outside  *)
(* the repository: what it yields for one utterance is, per category, the  *)
(* vector sims of cosine similarities (in hundredths) of the utterance to  *)
(* the category's reference rows, and order = sims.argsort()[::-1], any    *)
(* permutation of the rows along which sims does not increase.             *)
(***************************************************************************)
SPECIAL_THRESHOLD == 50
CATEGORY_THRESHOLD == 70
SPECIAL_TOPN == 1
CATEGORY_TOPN == 10

RECURSIVE AboveThreshold(_, _, _, _)
\* [(labels[i], sims[i]) for i in top_idx if sims[i] > threshold]
AboveThreshold(top_idx, sims, labels, threshold) ==
    IF top_idx = <<>> THEN <<>>
    ELSE LET i == Head(top_idx)
         IN (IF sims[i] > threshold THEN << <<labels[i], sims[i]>> >> ELSE <<>>)
            \o AboveThreshold(Tail(top_idx), sims, labels, threshold)

best_match(e, labels, threshold, topn) ==
    IF Len(e.sims) = 0 THEN <<>>
    ELSE AboveThreshold(SubSeq(e.order, 1, Min(topn, Len(e.order))),
                        e.sims, labels, threshold)

LabelsOf(matches) == [i \in 1..Len(matches) |-> matches[i][1]]

\* re.search(r'\b(a|b|...)\b', user_input, re.IGNORECASE)
ReSearchWords(alternatives, user_input) ==
    LET s == Lower(user_input)
    IN \E a \in alternatives : \E i \in 1..Len(s) : WordMatchAt(s, i, a)

EmptyIntents ==
    [ dietary |-> <<>>, cuisine |-> <<>>, meal_type |-> <<>>,
      time_constraint |-> <<>>, ingredients |-> <<>>, special |-> None ]

\* one iteration of the loop over intent_patterns['time_constraint'].items()
TimeStepNoFlag(st, entry, user_input) ==
    IF ReSearchWords(entry.alternatives, user_input)
    THEN [st EXCEPT !.intents.time_constraint = Append(@, entry.key)]
    ELSE st

TimeStep(st, entry, user_input) ==
    IF ReSearchWords(entry.alternatives, user_input)
    THEN [st EXCEPT !.intents.time_constraint = Append(@, entry.key),
                    !.matched = TRUE]
    ELSE st

RECURSIVE TimeLoop(_, _, _)
TimeLoop(st, entries, user_input) ==
    IF entries = <<>> THEN st
    ELSE TimeLoop(TimeStep(st, Head(entries), user_input), Tail(entries), user_input)

\* the lexical cross-check of a candidate label against the cleaned utterance
Confirmed(label, words, user_input_lower) ==
    \/ Lower(label) \in words
    \/ \E word \in words : Contains(word, Lower(label))
    \/ Contains(Lower(label), user_input_lower)

\* `label not in assigned_labels'
AlwaysUnassigned(label, assigned_labels) == TRUE

Unassigned(label, assigned_labels) == label \notin assigned_labels

\* intents[category].append(label); assigned_labels.add(label); matched = True
Assign(st, category, label) ==
    [st EXCEPT !.intents[category] = Append(@, label),
               !.assigned_labels = @ \cup {label},
               !.matched = TRUE]

RECURSIVE ConfirmLoop(_, _, _, _, _)
\* for label in all_matches[category]: confirmation
ConfirmLoop(st, category, labels, words, user_input_lower) ==
    IF labels = <<>> THEN st
    ELSE LET label == Head(labels)
             st1 == IF /\ Confirmed(label, words, user_input_lower)
                       /\ Unassigned(label, st.assigned_labels)
                    THEN Assign(st, category, label)
                    ELSE st
         IN ConfirmLoop(st1, category, Tail(labels), words, user_input_lower)

RECURSIVE FillLoop(_, _, _)
\* for label in all_matches[category]: fallback fill
FillLoop(st, category, labels) ==
    IF labels = <<>> THEN st
    ELSE LET label == Head(labels)
             st1 == IF Unassigned(label, st.assigned_labels)
                    THEN Assign(st, category, label)
                    ELSE st
         IN FillLoop(st1, category, Tail(labels))

\* the body with the fallback fill of every category that has candidates
CategoryStepFillAll(st, category, all_matches, words, user_input_lower) ==
    LET st1 == ConfirmLoop(st, category, all_matches[category], words, user_input_lower)
    IN FillLoop(st1, category, all_matches[category])

\* the body with the fallback fill ahead of the confirmation loop
CategoryStepFillFirst(st, category, all_matches, words, user_input_lower) ==
    LET st1 == IF st.intents[category] = <<>> /\ all_matches[category] # <<>>
               THEN FillLoop(st, category, all_matches[category])
               ELSE st
    IN ConfirmLoop(st1, category, all_matches[category], words, user_input_lower)

\* the body of `for category in ['cuisine', 'ingredients', 'meal_type',
\* 'dietary']': the confirmation loop, then, inside the same iteration, the
\* fallback fill of that category
CategoryStep(st, category, all_matches, words, user_input_lower) ==
    LET st1 == ConfirmLoop(st, category, all_matches[category], words, user_input_lower)
    IN IF st1.intents[category] = <<>> /\ all_matches[category] # <<>>
       THEN FillLoop(st1, category, all_matches[category])
       ELSE st1

ASSIGN_ORDER == <<"cuisine", "ingredients", "meal_type", "dietary">>

MATCH_ORDER == <<"dietary", "cuisine", "meal_type", "ingredients">>

RECURSIVE CategoryLoop(_, _, _, _, _)
CategoryLoop(st, categories, all_matches, words, user_input_lower) ==
    IF categories = <<>> THEN st
    ELSE CategoryLoop(
             CategoryStep(st, Head(categories), all_matches, words, user_input_lower),
             Tail(categories), all_matches, words, user_input_lower)

\* recognize_intent after the validation; matches is what its calls of
\* best_match return
RecognizeCleaned(user_input, user_input_cleaned, patterns, matches) ==
    LET special_match == matches.special
        st0 == [ intents |-> EmptyIntents, matched |-> FALSE, assigned_labels |-> {} ]
        st1 == IF special_match # <<>>
               THEN [st0 EXCEPT !.intents.special = special_match[1][1],
                                !.matched = TRUE]
               ELSE st0
        st2 == TimeLoop(st1, patterns.time_constraint, user_input)
        words == Range(Split(Strip(Lower(user_input_cleaned))))
        all_matches == [c \in Range(MATCH_ORDER) |-> LabelsOf(matches[c])]
        st3 == CategoryLoop(st2, ASSIGN_ORDER, all_matches, words,
                            Lower(user_input_cleaned))
    IN [ raised |-> None,
         intents |-> [ dietary |-> st3.intents.dietary,
                       cuisine |-> st3.intents.cuisine,
                       meal_type |-> st3.intents.meal_type,
                       time_constraint |-> st3.intents.time_constraint,
                       ingredients |-> st3.intents.ingredients,
                       special |-> st3.intents.special,
                       matched |-> st3.matched ],
         matches |-> matches ]

recognize_intent(user_input, user_input_cleaned, patterns, matches) ==
    IF IsBlank(user_input_cleaned)
    THEN [ raised |-> "ValueError", intents |-> None, matches |-> None ]
    ELSE RecognizeCleaned(user_input, user_input_cleaned, patterns, matches)

(***************************************************************************)
(* chatbot.py / utils/preprocess.py: the corpus.  A CSV record is a record *)
(* of cell texts ("" an absent cell).  pandas' read_csv, which is outside  *)
(* the repository, numbers the rows 0, 1, ... (the DataFrame index), turns *)
(* an absent cell into NaN and makes the minutes column numeric when every *)
(* present cell is a number, and a column of str otherwise.                *)
(***************************************************************************)
IsDigits(s) == s # "" /\ \A i \in 1..Len(s) : Ch(s, i) \in DigitSet

RECURSIVE ParseInt(_)
ParseInt(s) ==
    IF s = "" THEN 0
    ELSE 10 * ParseInt(SubSeq(s, 1, Len(s) - 1)) + (IndexIn(Digits, Ch(s, Len(s))) - 1)

RECURSIVE FormatInt(_)
\* str(n) for n >= 0
FormatInt(n) ==
    IF n < 10 THEN Ch(Digits, n + 1)
    ELSE FormatInt(n \div 10) \o Ch(Digits, (n % 10) + 1)

\* a cell as read_csv leaves it: a number, a str, or NaN
IntCell(n) == [ kind |-> "int", num |-> n, str |-> "" ]
StrCell(s) == [ kind |-> "str", num |-> 0, str |-> s ]
NaN == [ kind |-> "nan", num |-> 0, str |-> "" ]

TextCell(text) == IF text = "" THEN NaN ELSE StrCell(text)

read_csv(raw) ==
    LET numeric == \A i \in 1..Len(raw) : raw[i].minutes = "" \/ IsDigits(raw[i].minutes)
    IN [i \in 1..Len(raw) |->
           [ idx |-> i - 1,
             name |-> raw[i].name,
             minutes |-> IF raw[i].minutes = "" THEN NaN
                         ELSE IF numeric THEN IntCell(ParseInt(raw[i].minutes))
                         ELSE StrCell(raw[i].minutes),
             tags |-> TextCell(raw[i].tags),
             ingredients |-> TextCell(raw[i].ingredients) ]]

RECURSIVE SplitOn(_, _, _, _)
\* s.split(sep) for a one-character sep
SplitOn(s, i, cur, sep) ==
    IF i > Len(s) THEN <<cur>>
    ELSE IF Ch(s, i) = sep THEN <<cur>> \o SplitOn(s, i + 1, "", sep)
    ELSE SplitOn(s, i + 1, cur \o Ch(s, i), sep)

\* one element of a list display: a single-quoted string without quotes inside
IsQuoted(e) ==
    /\ Len(e) >= 2
    /\ Ch(e, 1) = "'"
    /\ Ch(e, Len(e)) = "'"
    /\ "'" \notin CharsOf(SubSeq(e, 2, Len(e) - 1))

\* ast.literal_eval(x) on a text that starts with "[": the list of the quoted
\* strings of a well-formed display; any other text of the model raises
\* (SyntaxError or ValueError)
literal_eval(x) ==
    LET inner == SubSeq(x, 2, Len(x) - 1)
        elems == SplitOn(inner, 1, "", ",")
        items == [i \in 1..Len(elems) |-> Strip(elems[i])]
    IN IF ~(Len(x) >= 2 /\ Ch(x, Len(x)) = "]")
       THEN [ raised |-> "SyntaxError", value |-> None ]
       ELSE IF Strip(inner) = ""
       THEN [ raised |-> None, value |-> <<>> ]
       ELSE IF \A i \in 1..Len(items) : IsQuoted(items[i])
       THEN [ raised |-> None,
              value |-> [i \in 1..Len(items) |-> SubSeq(items[i], 2, Len(items[i]) - 1)] ]
       ELSE [ raised |-> "ValueError", value |-> None ]

\* lambda x: ast.literal_eval(x) if isinstance(x, str) and x.startswith("[") else []
ConvertCell(x) ==
    IF x.kind = "str" /\ StartsWith(x.str, "[")
    THEN literal_eval(x.str)
    ELSE [ raised |-> None, value |-> <<>> ]

\* preprocess_data: both columns converted row by row; an exception of
\* literal_eval is not handled and leaves the function
preprocess_data(df) ==
    LET tags == [i \in 1..Len(df) |-> ConvertCell(df[i].tags)]
        ings == [i \in 1..Len(df) |-> ConvertCell(df[i].ingredients)]
        bad == { i \in 1..Len(df) : tags[i].raised # None \/ ings[i].raised # None }
    IN IF bad # {}
       THEN LET i == CHOOSE j \in bad : \A k \in bad : j <= k
            IN [ raised |-> IF tags[i].raised # None THEN tags[i].raised ELSE ings[i].raised,
                 df |-> None ]
       ELSE [ raised |-> None,
              df |-> [i \in 1..Len(df) |->
                         [df[i] EXCEPT !.tags = tags[i].value,
                                       !.ingredients = ings[i].value]] ]

DIETARY_KEYWORDS ==
    { "vegetarian", "vegan", "healthy", "low-fat", "gluten", "diet", "low-protein",
      "low-sodium", "low-cholesterol", "low-saturated-fat", "low-calorie",
      "free-of-something", "low-in-something", "very-low-carbs", "egg-free",
      "lactose", "diabetic", "dairy-free" }

CUISINE_KEYWORDS ==
    { "asian", "italian", "mexican", "indian", "american", "chinese", "japanese",
      "thai", "korean", "mediterranean", "north-american", "southwestern-united-states",
      "brazilian", "south-american", "european", "french", "greek", "spanish",
      "portuguese", "german", "hungarian", "austrian", "dutch", "australian",
      "canadian", "english", "middle-eastern", "turkish", "african", "moroccan",
      "russian", "colombian", "filipino", "scandinavian", "vietnamese", "lebanese",
      "swiss", "cajun", "creole", "irish", "polish", "swedish", "norwegian",
      "danish", "egyptian", "ethiopian", "nigerian", "belgian", "venezuelan",
      "quebec", "british-columbian", "nepalese", "puerto-rican", "costa-rican",
      "guatemalan", "honduran", "argentine", "chilean", "iranian-persian",
      "libyan", "somalian", "beijing", "mongolian", "cambodian", "sudanese" }

MEAL_TYPE_KEYWORDS ==
    { "desserts", "main", "main-dish", "appetizer", "beverage", "breakfast",
      "lunch", "dinner", "snack", "starter", "entree", "side-dishes",
      "pies-and-tarts", "pies", "cakes", "cookies-and-brownies", "biscotti",
      "soups-stews", "stews", "salads", "sandwiches", "casseroles", "muffins",
      "breads", "quick-breads", "rolls-biscuits", "cupcakes", "pasta",
      "pasta-rice-and-grains", "rice", "lasagna", "spaghetti",
      "omelets-and-frittatas", "pancakes-and-waffles", "pizza", "potluck",
      "potatoes", "scones", "sauces", "salsas", "dips", "spread", "snacks",
      "smoothies", "burgers", "veggie-burgers", "salad-dressings", "candy",
      "fudge", "bar-cookies", "brownies", "puddings-and-mousses",
      "cobblers-and-crisps" }

TIME_PATTERNS ==
    << [ key |-> "quick",
         alternatives |-> {"quick", "fast", "easy", "30.min", "minutes", "rushed"} ],
       [ key |-> "slow",
         alternatives |-> {"slow", "hours", "all.day", "weekend", "complex"} ] >>

RECURSIVE Distinct(_, _)
\* the elements of seq in order of first occurrence
Distinct(seq, seen) ==
    IF seq = <<>> THEN <<>>
    ELSE IF Head(seq) \in seen THEN Distinct(Tail(seq), seen)
    ELSE <<Head(seq)>> \o Distinct(Tail(seq), seen \cup {Head(seq)})

RECURSIVE Flatten(_)
Flatten(lists) == IF lists = <<>> THEN <<>> ELSE Head(lists) \o Flatten(Tail(lists))

LowerAll(seq) == [i \in 1..Len(seq) |-> Lower(seq[i])]

HasKeyword(tag, keywords) == \E x \in keywords : Contains(x, tag)

MIN_INGREDIENT_LEN == 2

\* build_intent_patterns: the keys of patterns[category].  tag_set and
\* ingredient_set are Python sets; their iteration order, which becomes the
\* order of the labels, is taken to be the order of first occurrence.
build_intent_patterns(df) ==
    LET tag_set == Distinct(LowerAll(Flatten([i \in 1..Len(df) |-> df[i].tags])), {})
        ingredient_set ==
            Distinct(LowerAll(Flatten([i \in 1..Len(df) |-> df[i].ingredients])), {})
        dietary == { t \in Range(tag_set) : HasKeyword(t, DIETARY_KEYWORDS) }
        cuisine == { t \in Range(tag_set) \ dietary : HasKeyword(t, CUISINE_KEYWORDS) }
        meal_type == { t \in Range(tag_set) \ (dietary \cup cuisine) :
                          HasKeyword(t, MEAL_TYPE_KEYWORDS) }
    IN [ dietary |-> SelectList(tag_set, dietary),
         cuisine |-> SelectList(tag_set, cuisine),
         meal_type |-> SelectList(tag_set, meal_type),
         time_constraint |-> TIME_PATTERNS,
         ingredients |-> SelectList(ingredient_set,
                             { g \in Range(ingredient_set) : Len(g) > MIN_INGREDIENT_LEN }) ]

SPECIAL_LABELS == <<"greeting", "goodbye", "help">>

\* compile_model_and_embeddings: intent_labels
compile_labels(patterns) ==
    [ dietary |-> patterns.dietary, cuisine |-> patterns.cuisine,
      meal_type |-> patterns.meal_type, ingredients |-> patterns.ingredients,
      special |-> SPECIAL_LABELS ]

(***************************************************************************)
(* utils/filter.py                                                         *)
(***************************************************************************)
\* the closed list of cuisine words of filter_recipes (the same words as
\* CUISINE_KEYWORDS of the vocabulary builder)
cuisine_keywords == CUISINE_KEYWORDS

QUICK_MAX_MINUTES == 60
SLOW_MIN_MINUTES == 120
TOP_N == 3

\* df.copy()
Copy(df) == df

\* tag_filters.extend(v.lower() for v in values) over dietary, cuisine, meal_type
TagFilters(intents) ==
    LowerAll(intents.dietary) \o LowerAll(intents.cuisine) \o LowerAll(intents.meal_type)

\* ingredient_filters.extend(v for v in values if v.lower() in user_words)
IngredientFilters(intents, user_words) ==
    SelectSeq(intents.ingredients, LAMBDA v : Lower(v) \in user_words)

TagStage(df, tag_filters) ==
    SelectSeq(df, LAMBDA row :
        \E k \in 1..Len(row.tags) : Lower(row.tags[k]) \in Range(tag_filters))

FallbackStage(df, user_cuisines) ==
    SelectSeq(df, LAMBDA row :
        \E k \in 1..Len(row.tags) : \E cuisine \in user_cuisines :
            Contains(cuisine, Lower(row.tags[k])))

IngredientStage(df, ing) ==
    SelectSeq(df, LAMBDA row :
        \E k \in 1..Len(row.ingredients) : Contains(ing, Lower(row.ingredients[k])))

\* the rows with an ingredient containing any one of the filters
IngredientLoopAny(df, ingredient_filters) ==
    IF ingredient_filters = <<>> THEN df
    ELSE SelectSeq(df, LAMBDA row :
             \E n \in 1..Len(ingredient_filters) : \E k \in 1..Len(row.ingredients) :
                 Contains(ingredient_filters[n], Lower(row.ingredients[k])))

RECURSIVE IngredientLoop(_, _)
IngredientLoop(df, ingredient_filters) ==
    IF ingredient_filters = <<>> THEN df
    ELSE IngredientLoop(IngredientStage(df, Head(ingredient_filters)),
                        Tail(ingredient_filters))

\* df['minutes'] <= 60 and df['minutes'] > 120: comparing a str cell with a
\* number raises TypeError; NaN compares False
ComparisonRaises(df) == \E i \in 1..Len(df) : df[i].minutes.kind = "str"

SlowRows(df) ==
    SelectSeq(df, LAMBDA row :
        row.minutes.kind = "int" /\ row.minutes.num > SLOW_MIN_MINUTES)

RECURSIVE InsertByMinutes(_, _)
InsertByMinutes(row, sorted) ==
    IF sorted = <<>> THEN <<row>>
    ELSE IF row.minutes.num < Head(sorted).minutes.num THEN <<row>> \o sorted
    ELSE <<Head(sorted)>> \o InsertByMinutes(row, Tail(sorted))

RECURSIVE SortByMinutes(_)
SortByMinutes(df) ==
    IF df = <<>> THEN <<>> ELSE InsertByMinutes(Head(df), SortByMinutes(Tail(df)))

\* the quick rows, shortest first
QuickRowsRanked(df) ==
    SortByMinutes(SelectSeq(df, LAMBDA row :
        row.minutes.kind = "int" /\ row.minutes.num <= QUICK_MAX_MINUTES))

QuickRows(df) ==
    SelectSeq(df, LAMBDA row :
        row.minutes.kind = "int" /\ row.minutes.num <= QUICK_MAX_MINUTES)

\* the time stage with 'slow' tested before 'quick'
TimeStageSlowFirst(df, values) ==
    IF values = <<>> THEN [ raised |-> None, df |-> df ]
    ELSE IF ComparisonRaises(df) THEN [ raised |-> "TypeError", df |-> <<>> ]
    ELSE IF "slow" \in Range(values)
    THEN [ raised |-> None,
           df |-> SelectSeq(df, LAMBDA row :
                      row.minutes.kind = "int" /\ row.minutes.num > SLOW_MIN_MINUTES) ]
    ELSE [ raised |-> None,
           df |-> SelectSeq(df, LAMBDA row :
                      row.minutes.kind = "int" /\ row.minutes.num <= QUICK_MAX_MINUTES) ]

TimeStage(df, values) ==
    IF values = <<>> THEN [ raised |-> None, df |-> df ]
    ELSE IF "quick" \in Range(values)
    THEN (IF ComparisonRaises(df) THEN [ raised |-> "TypeError", df |-> <<>> ]
          ELSE [ raised |-> None, df |-> QuickRows(df) ])
    ELSE IF "slow" \in Range(values)
    THEN (IF ComparisonRaises(df) THEN [ raised |-> "TypeError", df |-> <<>> ]
          ELSE [ raised |-> None, df |-> SlowRows(df) ])
    ELSE [ raised |-> None, df |-> df ]

\* filter_recipes with the cuisine-keyword stage applied whatever tag_filters holds
FilterFallbackAlways(intents, user_input, df0) ==
    LET df == Copy(df0)
        user_words == Range(FindWords(Lower(user_input)))
        tag_filters == TagFilters(intents)
        ingredient_filters == IngredientFilters(intents, user_words)
        user_cuisines == user_words \cap cuisine_keywords
        df0a == IF tag_filters # <<>> THEN TagStage(df, tag_filters) ELSE df
        df1 == IF user_cuisines # {} THEN FallbackStage(df0a, user_cuisines) ELSE df0a
        df2 == IngredientLoop(df1, ingredient_filters)
    IN TimeStage(df2, intents.time_constraint)

\* the column renaming of lines 43-55 does nothing on a frame that
\* preprocess_data accepted: it has the columns 'tags' and 'ingredients'
filter_recipes(intents, user_input, df0) ==
    LET df == Copy(df0)
        user_words == Range(FindWords(Lower(user_input)))
        tag_filters == TagFilters(intents)
        ingredient_filters == IngredientFilters(intents, user_words)
        user_cuisines == user_words \cap cuisine_keywords
        df1 == IF tag_filters # <<>> THEN TagStage(df, tag_filters)
               ELSE IF user_words # {} /\ user_cuisines # {}
               THEN FallbackStage(df, user_cuisines)
               ELSE df
        df2 == IngredientLoop(df1, ingredient_filters)
    IN TimeStage(df2, intents.time_constraint)

IsLetter(c) == c \in UpperSet \cup LowerSet

RECURSIVE TitleFrom(_, _)
TitleFrom(s, i) ==
    IF i > Len(s) THEN ""
    ELSE (IF i > 1 /\ IsLetter(Ch(s, i - 1)) THEN LowerCh(Ch(s, i)) ELSE UpperCh(Ch(s, i)))
         \o TitleFrom(s, i + 1)

\* str.title()
Title(s) == TitleFrom(s, 1)

MINUTES_PER_HOUR == 60

\* int(float(minutes)), 0 when the conversion raises (NaN, a text that is no number)
MinutesOf(cell) ==
    IF cell.kind = "int" THEN cell.num
    ELSE IF cell.kind = "str" /\ IsDigits(cell.str) THEN ParseInt(cell.str)
    ELSE 0

\* format_recipe: the number, name and cooking-time lines of the entry
format_recipe(recipe_row, index) ==
    LET minutes == MinutesOf(recipe_row.minutes)
    IN [ index |-> index,
         name |-> Title(recipe_row.name),
         time |-> IF minutes < MINUTES_PER_HOUR
                  THEN FormatInt(minutes) \o " minutes"
                  ELSE FormatInt(minutes \div MINUTES_PER_HOUR) \o "h "
                       \o FormatInt(minutes % MINUTES_PER_HOUR) \o "m" ]

(***************************************************************************)
(* chatbot.py: get_recommendations                                         *)
(***************************************************************************)
GREETING_TEXT == "Hello! How can I help you find recipes today?"
GOODBYE_TEXT == "Goodbye! Happy cooking!"
NO_MATCHES_TEXT == "Sorry, I couldn't find any recipes matching your request."
FALLBACK_TEXT ==
    "I'm here to help you find recipes! Try asking for a cuisine, ingredient, or meal type, like 'Italian chicken' or 'quick dessert'."

responses ==
    << [ key |-> "your name", response |-> "I'm Rice, your recipe assistant!" ],
       [ key |-> "how are you",
         response |-> "I'm just code, but I'm ready to cook up some recipes!" ],
       [ key |-> "thank", response |-> "You're welcome! Want another recipe?" ],
       [ key |-> "shoes", response |-> "No shoes here, but I've got tasty recipes!" ] >>

Text(kind, text) == [ kind |-> kind, text |-> text, items |-> <<>> ]

\* filtered_recipes.head(3)
Head3All(df) == df

Head3(df) == SubSeq(df, 1, Min(TOP_N, Len(df)))

\* the conversational branch of an unmatched utterance
Unmatched(user_input) ==
    LET user_input_lower == Lower(user_input)
        hits == { k \in 1..Len(responses) : Contains(responses[k].key, user_input_lower) }
    IN IF hits # {}
       THEN Text("canned", responses[CHOOSE k \in hits : \A j \in hits : k <= j].response)
       ELSE Text("fallback", FALLBACK_TEXT)

\* `if intents['special']:' and the choice of the fixed text
SpecialResponseSwapped(special) ==
    Text("special", IF special = "goodbye" THEN GOODBYE_TEXT ELSE GREETING_TEXT)

SpecialResponse(special) ==
    Text("special", IF special = "greeting" THEN GREETING_TEXT ELSE GOODBYE_TEXT)

\* get_recommendations after recognize_intent returned the record rec
Compose(user_input, rec, df) ==
    IF rec.intents.special # None
    THEN [ raised |-> None, response |-> SpecialResponse(rec.intents.special),
           filtered |-> <<>> ]
    ELSE LET f == filter_recipes(rec.intents, user_input, df)
         IN IF f.raised # None
            THEN [ raised |-> f.raised, response |-> Text("none", ""), filtered |-> <<>> ]
            ELSE [ raised |-> None,
                   filtered |-> <<f.df>>,
                   response |->
                       IF ~rec.intents.matched THEN Unmatched(user_input)
                       ELSE IF f.df = <<>> THEN Text("no_matches", NO_MATCHES_TEXT)
                       ELSE [ kind |-> "recipes", text |-> "",
                              items |-> [k \in 1..Len(Head3(f.df)) |->
                                  format_recipe(Head3(f.df)[k], Head3(f.df)[k].idx + 1)] ] ]

get_recommendations(user_input, user_input_cleaned, matches, patterns, df) ==
    LET rec == recognize_intent(user_input, user_input_cleaned, patterns, matches)
    IN IF rec.raised # None
       THEN [ raised |-> rec.raised, intents |-> <<>>, matches |-> <<>>,
              filtered |-> <<>>, response |-> Text("none", "") ]
       ELSE LET out == Compose(user_input, rec, df)
            IN [ raised |-> out.raised, intents |-> <<rec.intents>>,
                 matches |-> <<rec.matches>>, filtered |-> out.filtered,
                 response |-> out.response ]

(***************************************************************************)
(* The inputs: the CSV files the program may be started on, the lines a    *)
(* user may type, and what the encoder may yield.                          *)
(***************************************************************************)
Row(name, minutes, tags, ingredients) ==
    [ name |-> name, minutes |-> minutes, tags |-> tags, ingredients |-> ingredients ]

\* well-formed rows; rows 0, 3, 4, 5 differ in name and minutes only
CorpusGood ==
    << Row("pad thai", "30", "['thai', 'rice']", "['rice', 'egg']"),
       Row("omelet", "15", "['easy']", "['egg']"),
       Row("thai curry", "60", "['Thai']", "['rice']"),
       Row("thai rice bowl", "61", "['thai', 'rice']", "['rice', 'egg']"),
       Row("thai stew", "120", "['thai', 'rice']", "['rice', 'egg']"),
       Row("thai roast", "121", "['thai', 'rice']", "['rice', 'egg']") >>

\* absent cells, a cell that is no list display, a label of several words
CorpusSparse ==
    << Row("veg thai", "45", "['vegan', 'thai-style']", "['brown rice']"),
       Row("mystery", "", "", "rice"),
       Row("vegan rice", "", "['vegan']", "['brown rice']") >>

\* a list display that does not parse
CorpusBadList ==
    << Row("pad thai", "30", "['thai', 'rice']", "['rice']"),
       Row("broken", "20", "[thai, rice]", "['rice']") >>

\* a minutes cell that is no number
CorpusBadMinutes ==
    << Row("pad thai", "30", "['thai']", "['rice']"),
       Row("some day", "soon", "['thai']", "['rice']") >>

\* more ingredients than best_match returns candidates
CorpusLarge ==
    << Row("grain bowl", "25", "['thai']",
           "['egg', 'oat', 'rye', 'yam', 'fig', 'nut', 'pea', 'cod', 'ham', 'jam', 'soy']") >>

RawCorpora == { CorpusGood, CorpusSparse, CorpusBadList, CorpusBadMinutes, CorpusLarge }

MaxWords == 2

Lexicon == { "the", "i want", "fast", "slow", "Thai", "rice", "egg", "shoes" }

\* the exit commands, and lines that only contain one
ExitLines == { "quit", "EXIT", " quit  ", " Exit ", "quit rice", "the exit" }

RECURSIVE Phrases(_)
\* the texts of at most n lexicon entries separated by single spaces
Phrases(n) ==
    IF n = 0 THEN {""}
    ELSE LET shorter == Phrases(n - 1)
         IN shorter \cup { IF p = "" THEN w ELSE p \o " " \o w : p \in shorter, w \in Lexicon }

\* the lines input() may return: the phrases, each lexicon entry typed with
\* blanks around it, a blank line, and the lines about the exit commands
Lines ==
    Phrases(MaxWords) \cup { " " \o w \o "  " : w \in Lexicon } \cup { "  " } \cup ExitLines

SPECIAL_SIMS == {40, 60}
CATEGORY_SIMS == {60, 80}

Injective(f) == \A i, j \in DOMAIN f : f[i] = f[j] => i = j

\* sims.argsort()[::-1]: the orders along which sims does not increase
SortedOrders(sims) ==
    { o \in [1..Len(sims) -> 1..Len(sims)] :
        /\ Injective(o)
        /\ \A i, j \in 1..Len(sims) : i < j => sims[o[i]] >= sims[o[j]] }

Rankings(rows, levels) ==
    UNION { { [ sims |-> sims, order |-> o ] : o \in SortedOrders(sims) } :
            sims \in [1..rows -> levels] }

\* for a table of more rows than topn, five of its rankings: all rows above
\* the threshold in table order and in reverse order, the first row below it
\* with the others in table order and in reverse order, all rows below it
SampleRankings(rows, levels) ==
    LET hi == CHOOSE x \in levels : \A y \in levels : x >= y
        lo == CHOOSE x \in levels : \A y \in levels : x <= y
        high == [i \in 1..rows |-> hi]
        low1 == [i \in 1..rows |-> IF i = 1 THEN lo ELSE hi]
        low == [i \in 1..rows |-> lo]
        up == [i \in 1..rows |-> i]
        down == [i \in 1..rows |-> rows + 1 - i]
        upRest == [i \in 1..rows |-> IF i = rows THEN 1 ELSE i + 1]
    IN { [ sims |-> high, order |-> up ], [ sims |-> high, order |-> down ],
         [ sims |-> low1, order |-> upRest ], [ sims |-> low1, order |-> down ],
         [ sims |-> low, order |-> up ] }

\* the similarities to a category's reference rows; a category without
\* labels has the one placeholder row np.zeros((1, 384)), whose similarity is 0
CategoryRankings(labels) ==
    IF labels = <<>> THEN { [ sims |-> <<0>>, order |-> <<1>> ] }
    ELSE IF Len(labels) > CATEGORY_TOPN THEN SampleRankings(Len(labels), CATEGORY_SIMS)
    ELSE Rankings(Len(labels), CATEGORY_SIMS)

\* what the five calls of best_match of recognize_intent may return: for the
\* special table with threshold 0.5 and topn 1, for a category with threshold
\* 0.7 and topn 10
SpecialMatches(labels) ==
    { best_match(e, labels, SPECIAL_THRESHOLD, SPECIAL_TOPN) :
      e \in Rankings(Len(labels), SPECIAL_SIMS) }

CategoryMatches(labels) ==
    { best_match(e, labels, CATEGORY_THRESHOLD, CATEGORY_TOPN) :
      e \in CategoryRankings(labels) }

MatchOutcomes(labels) ==
    [ special : SpecialMatches(labels.special),
      dietary : CategoryMatches(labels.dietary),
      cuisine : CategoryMatches(labels.cuisine),
      meal_type : CategoryMatches(labels.meal_type),
      ingredients : CategoryMatches(labels.ingredients) ]

(***************************************************************************)
(* chatbot.py: the program.  pc is the position of the main program:       *)
(* "main" before the start-up block, "input" in input(), "respond" with a  *)
(* line read that is no exit command, "loop" at the end of an iteration,   *)
(* "done" after the loop, "fatal" after a failed start-up.                  *)
(* user_input_cleaned, intents, matches and filtered are what the last     *)
(* call of get_recommendations computed (the empty tuple: not computed),   *)
(* raised is the exception the last iteration caught, response what it     *)
(* printed.  probe remembers one earlier call for comparison.              *)
(***************************************************************************)
VARIABLES pc, csv, recipes_df, intent_patterns, intent_labels,
          user_input, user_input_cleaned, intents, matches, filtered, raised,
          response, probe

vars == << pc, csv, recipes_df, intent_patterns, intent_labels,
           user_input, user_input_cleaned, intents, matches, filtered, raised,
           response, probe >>

globals == << recipes_df, intent_patterns, intent_labels >>

Init ==
    /\ pc = "main"
    /\ csv \in RawCorpora
    /\ recipes_df = <<>>
    /\ intent_patterns = <<>>
    /\ intent_labels = <<>>
    /\ user_input = ""
    /\ user_input_cleaned = ""
    /\ intents = <<>>
    /\ matches = <<>>
    /\ filtered = <<>>
    /\ raised = None
    /\ response = Text("none", "")
    /\ probe = <<>>

\* the start-up block under `if __name__ == "__main__"'
Startup ==
    /\ pc = "main"
    /\ LET loaded == preprocess_data(read_csv(csv))
       IN IF loaded.raised # None
          THEN /\ pc' = "fatal"
               /\ raised' = loaded.raised
               /\ response' = Text("init_error", loaded.raised)
               /\ UNCHANGED globals
          ELSE /\ pc' = "input"
               /\ recipes_df' = loaded.df
               /\ intent_patterns' = build_intent_patterns(loaded.df)
               /\ intent_labels' = compile_labels(build_intent_patterns(loaded.df))
               /\ UNCHANGED << raised, response >>
    /\ UNCHANGED << csv, user_input, user_input_cleaned, intents, matches,
                    filtered, probe >>

\* `user_input.lower() in ['quit', 'exit']'
IsExitCommand(text) == Lower(text) \in {"quit", "exit"}

\* where the loop goes after `except Exception'
AfterExceptionBreak == "done"

AfterException == "loop"

\* the frame bound to recipes_df after filter_recipes(intents, user_input,
\* recipes_df) returned result: the function narrows its own copy
CallerFrameNarrowed(df, result) == result

CallerFrame(df, result) == df

\* input() returns a line
ReadLine(line) ==
    /\ pc = "input"
    /\ \E text \in { Strip(line) } :
          /\ user_input' = text
          /\ IF IsExitCommand(text)
             THEN pc' = "done" /\ response' = Text("bye", "Goodbye!")
             ELSE pc' = "respond" /\ response' = Text("none", "")
    /\ UNCHANGED << csv, globals, user_input_cleaned, intents, matches, filtered,
                    raised, probe >>

\* input() raises (EOFError on a closed stdin): caught by `except Exception'
InputFault ==
    /\ pc = "input"
    /\ pc' = AfterException
    /\ raised' = "EOFError"
    /\ response' = Text("error", "Error: EOFError. Please try again.")
    /\ UNCHANGED << csv, globals, user_input, user_input_cleaned, intents,
                    matches, filtered, probe >>

\* KeyboardInterrupt inside the try block
Interrupt ==
    /\ pc \in {"input", "respond"}
    /\ pc' = "done"
    /\ raised' = "KeyboardInterrupt"
    /\ response' = Text("bye", "Goodbye!")
    /\ UNCHANGED << csv, globals, user_input, user_input_cleaned, intents,
                    matches, filtered, probe >>

\* the encoder is a function of the cleaned text: a call on the text of the
\* remembered call sees what that call saw
SameEncoding(cleaned, out) ==
    (probe # <<>> /\ probe[1].cleaned = cleaned /\ out.matches # <<>>)
        => out.matches = probe[1].matches

\* the outcomes of get_recommendations(user_input) over what the encoder may yield
Outcomes ==
    LET cleaned == clean_user_input(user_input)
    IN { [ cleaned |-> cleaned,
           out |-> get_recommendations(user_input, cleaned, m, intent_patterns, recipes_df) ] :
         m \in MatchOutcomes(intent_labels) }

\* response = get_recommendations(user_input); print(...), with the handler
\* of `except Exception'
Respond ==
    /\ pc = "respond"
    /\ \E o \in Outcomes :
          /\ SameEncoding(o.cleaned, o.out)
          /\ user_input_cleaned' = o.cleaned
          /\ intents' = o.out.intents
          /\ matches' = o.out.matches
          /\ filtered' = o.out.filtered
          /\ raised' = o.out.raised
          /\ recipes_df' = IF o.out.filtered # <<>>
                           THEN CallerFrame(recipes_df, o.out.filtered[1])
                           ELSE recipes_df
          /\ IF o.out.raised # None
             THEN /\ pc' = AfterException
                  /\ response' = Text("error",
                         "Error: " \o o.out.raised \o ". Please try again.")
             ELSE /\ pc' = "loop"
                  /\ response' = o.out.response
    /\ probe' = IF probe # <<>> /\ user_input # probe[1].input
                THEN << [probe[1] EXCEPT !.between = TRUE] >>
                ELSE probe
    /\ UNCHANGED << csv, intent_patterns, intent_labels, user_input >>

\* `while True:' the next iteration; what the last one computed is dead
NextIteration ==
    /\ pc = "loop"
    /\ pc' = "input"
    /\ user_input' = ""
    /\ user_input_cleaned' = ""
    /\ intents' = <<>>
    /\ matches' = <<>>
    /\ filtered' = <<>>
    /\ raised' = None
    /\ response' = Text("none", "")
    /\ UNCHANGED << csv, globals, probe >>

Next ==
    \/ Startup
    \/ \E line \in Lines : ReadLine(line)
    \/ InputFault
    \/ Interrupt
    \/ Respond
    \/ NextIteration

Spec == Init /\ [][Next]_vars

(***************************************************************************)
(* The session with one call remembered: Remember records, after a call    *)
(* of recognize_intent returned, the text, what the encoder yielded for it *)
(* and the IntentRecord; later calls on the same cleaned text see the same *)
(* encoder output.                                                         *)
(***************************************************************************)
ProbeLines == { "fast Thai", "rice egg", "the Thai", "the" }

Remember ==
    /\ pc = "loop"
    /\ intents # <<>>
    /\ probe = <<>>
    /\ probe' = << [ input |-> user_input,
                     cleaned |-> user_input_cleaned,
                     matches |-> matches,
                     intents |-> intents[1],
                     between |-> FALSE ] >>
    /\ UNCHANGED << pc, csv, globals, user_input, user_input_cleaned, intents,
                    matches, filtered,
                    raised, response >>

NextRemember ==
    \/ Startup
    \/ \E line \in ProbeLines : ReadLine(line)
    \/ InputFault
    \/ Respond
    \/ NextIteration
    \/ Remember

SpecRemember == Init /\ [][NextRemember]_vars

(***************************************************************************)
(* Properties                                                              *)
(***************************************************************************)
CATEGORY_FIELDS == {"dietary", "cuisine", "meal_type", "ingredients"}

\* the last iteration called get_recommendations and it has returned or raised
Responded == pc = "loop" /\ raised # "EOFError"

\* recognize_intent returned an IntentRecord in the last iteration
Recognized == pc = "loop" /\ intents # <<>>

\* filter_recipes returned a sequence in the last iteration
Filtered == pc = "loop" /\ filtered # <<>>

\* C1: an utterance that is empty after cleaning makes recognize raise
\* ValueError (the InvalidInputError of the specification); no IntentRecord
\* is returned
C1_EmptyAfterCleaningRaises ==
    (Responded /\ Strip(user_input_cleaned) = "")
        => (raised = "ValueError" /\ intents = <<>>)

C1_Witness ==
    /\ Responded
    /\ user_input # ""
    /\ clean_user_input(user_input) = ""
    /\ raised = "ValueError"
    /\ intents = <<>>

\* C2: no label is in two of the fields dietary, cuisine, meal_type,
\* ingredients of one IntentRecord
C2_FieldsDisjoint ==
    Recognized =>
        \A c, d \in CATEGORY_FIELDS :
            c # d => Range(intents[1][c]) \cap Range(intents[1][d]) = {}

\* a label that is a candidate of two categories, assigned to one field
C2_Witness ==
    /\ Recognized
    /\ \E c, d \in CATEGORY_FIELDS :
          /\ c # d
          /\ \E label \in Range(LabelsOf(matches[1][c])) \cap Range(LabelsOf(matches[1][d])) :
                label \in Range(intents[1][c])

\* C3: matched is true exactly when a field is non-empty or special is set
C3_MatchedIffAnyField ==
    Recognized =>
        (intents[1].matched <=>
            \/ \E c \in CATEGORY_FIELDS \cup {"time_constraint"} : intents[1][c] # <<>>
            \/ intents[1].special # None)

\* matched by the time constraint alone
C3_Witness ==
    /\ Recognized
    /\ intents[1].matched
    /\ intents[1].time_constraint # <<>>
    /\ \A c \in CATEGORY_FIELDS : intents[1][c] = <<>>
    /\ intents[1].special = None

\* C4: what filter returns is a subsequence of the corpus: each entry is the
\* corpus row of its index, and the indices increase
C4_FilterIsSubsequence ==
    Filtered =>
        LET f == filtered[1]
        IN /\ \A k \in 1..Len(f) :
                /\ f[k].idx + 1 \in 1..Len(recipes_df)
                /\ recipes_df[f[k].idx + 1] = f[k]
           /\ \A j, k \in 1..Len(f) : j < k => f[j].idx < f[k].idx

\* the tag, ingredient and time stages all applied, rows dropped in between
C4_Witness ==
    /\ Filtered
    /\ TagFilters(intents[1]) # <<>>
    /\ IngredientFilters(intents[1], Range(FindWords(Lower(user_input)))) # <<>>
    /\ intents[1].time_constraint # <<>>
    /\ Len(filtered[1]) >= 2
    /\ filtered[1][2].idx > filtered[1][1].idx + 1

\* C5: a call of recognize on the text of a remembered call returns the
\* remembered IntentRecord, whatever turns lie in between, and no step after
\* start-up changes the corpus, the vocabulary or the labels of the index
C5_SameRecord ==
    (Recognized /\ probe # <<>> /\ user_input = probe[1].input)
        => intents[1] = probe[1].intents

C5_Idempotent ==
    /\ []C5_SameRecord
    /\ [][pc # "main" => globals' = globals]_vars

\* the remembered text recognized again after a turn on another text
C5_Witness ==
    /\ Recognized
    /\ probe # <<>>
    /\ probe[1].between
    /\ user_input = probe[1].input
    /\ intents[1] = probe[1].intents

\* C6: recipes are in the response only when special is none, matched is
\* true and the filtered sequence is non-empty, and then they are the first
\* min(3, n) entries of it in order; unmatched gives a canned or the generic
\* text whatever the filter returned; matched with nothing filtered gives the
\* no-matches text
C6_ResponseComposition ==
    (Recognized /\ raised = None /\ intents[1].special = None) =>
        LET f == filtered[1]
            items == response.items
        IN /\ filtered # <<>>
           /\ response.kind = "recipes" <=> (intents[1].matched /\ f # <<>>)
           /\ response.kind = "recipes" =>
                /\ Len(items) = Min(3, Len(f))
                /\ \A k \in 1..Len(items) : items[k].index = f[k].idx + 1
           /\ ~intents[1].matched =>
                /\ response.kind \in {"canned", "fallback"}
                /\ response.items = <<>>
           /\ (intents[1].matched /\ f = <<>>) =>
                response = Text("no_matches", NO_MATCHES_TEXT)

\* five recipes filtered, three formatted
C6_Witness ==
    /\ Recognized
    /\ response.kind = "recipes"
    /\ filtered # <<>>
    /\ Len(filtered[1]) = 5
    /\ Len(response.items) = 3

\* C7: with special set the response is the greeting text for greeting and
\* the goodbye text otherwise, and no recipe is filtered or returned
C7_SpecialResponse ==
    (Recognized /\ intents[1].special # None) =>
        /\ raised = None
        /\ filtered = <<>>
        /\ response.kind = "special"
        /\ response.items = <<>>
        /\ intents[1].special = "greeting" => response.text = GREETING_TEXT
        /\ intents[1].special \in {"goodbye", "help"} => response.text = GOODBYE_TEXT

\* help recognized together with a time constraint
C7_Witness ==
    /\ Recognized
    /\ intents[1].special = "help"
    /\ intents[1].time_constraint # <<>>
    /\ response.text = GOODBYE_TEXT

\* C8: an exception of a turn is caught and reported and the loop reads the
\* next line; the session ends only on quit / exit or on an interrupt; after
\* the end nothing is processed
C8_Step ==
    /\ (pc \in {"input", "respond"} /\ raised' \notin {None, "KeyboardInterrupt"})
          => (pc' = "loop" /\ response'.kind = "error")
    /\ pc = "respond" => pc' \in {"loop", "done"}
    /\ pc = "loop" => pc' = "input"
    /\ (pc # "done" /\ pc' = "done")
          => \/ raised' = "KeyboardInterrupt"
             \/ pc = "input" /\ Lower(user_input') \in {"quit", "exit"}
    /\ (pc = "input" /\ pc' = "respond") => Lower(user_input') \notin {"quit", "exit"}
    /\ pc = "done" => pc' = "done"

C8_SessionLoop == [][C8_Step]_vars

\* the ValueError of a line of stop words was caught and reported
C8_Witness ==
    /\ pc = "loop"
    /\ raised = "ValueError"
    /\ response.kind = "error"
    /\ user_input # ""

\* C9: a malformed row makes neither the corpus load fail nor a filter stage
\* raise
C9_MalformedRecovered ==
    /\ pc # "fatal"
    /\ raised # "TypeError"

\* C10: with quick recognized every returned recipe takes at most 60
\* minutes, also when slow was recognized; with slow and not quick more than
\* 120; with no time constraint a corpus row with the tags and ingredients of
\* a returned row is returned too
C10_TimeStage ==
    Filtered =>
        LET f == filtered[1]
            values == Range(intents[1].time_constraint)
        IN /\ "quick" \in values =>
                \A k \in 1..Len(f) : f[k].minutes.kind = "int" /\ f[k].minutes.num <= 60
           /\ ("slow" \in values /\ "quick" \notin values) =>
                \A k \in 1..Len(f) : f[k].minutes.kind = "int" /\ f[k].minutes.num > 120
           /\ values = {} =>
                \A k \in 1..Len(f) : \A i \in 1..Len(recipes_df) :
                    (/\ recipes_df[i].tags = f[k].tags
                     /\ recipes_df[i].ingredients = f[k].ingredients)
                        => recipes_df[i] \in Range(f)

\* quick and slow both recognized, a recipe of exactly 60 minutes returned
C10_Witness ==
    /\ Filtered
    /\ intents[1].time_constraint = <<"quick", "slow">>
    /\ \E k \in 1..Len(filtered[1]) : filtered[1][k].minutes.num = 60
    /\ Len(filtered[1]) < Len(recipes_df)

\* the two-pass reading of the assignment: the labels a pass appends to a
\* field are the candidates it accepts that no field holds yet
C11_SPEC_ORDER == <<"cuisine", "ingredients", "meal_type", "dietary">>

\* the words and the lower-cased text of the cleaned utterance of the last turn
CleanedWords == Range(Split(Strip(Lower(user_input_cleaned))))

CleanedLower == Lower(user_input_cleaned)

RECURSIVE C11_ConfirmationPass(_, _, _, _, _)
C11_ConfirmationPass(st, categories, all_matches, words, lower) ==
    IF categories = <<>> THEN st
    ELSE LET c == Head(categories)
             took == SelectSeq(all_matches[c], LAMBDA label :
                         /\ label \notin st.assigned
                         /\ Confirmed(label, words, lower))
         IN C11_ConfirmationPass(
                [ fields |-> [st.fields EXCEPT ![c] = took],
                  assigned |-> st.assigned \cup Range(took) ],
                Tail(categories), all_matches, words, lower)

RECURSIVE C11_FillPass(_, _, _)
C11_FillPass(st, categories, all_matches) ==
    IF categories = <<>> THEN st
    ELSE LET c == Head(categories)
             took == IF st.fields[c] = <<>>
                     THEN SelectSeq(all_matches[c], LAMBDA label : label \notin st.assigned)
                     ELSE <<>>
         IN C11_FillPass(
                [ fields |-> [st.fields EXCEPT ![c] = @ \o took],
                  assigned |-> st.assigned \cup Range(took) ],
                Tail(categories), all_matches)

C11_TwoPass(all_matches, words, lower) ==
    LET st0 == [ fields |-> [c \in CATEGORY_FIELDS |-> <<>>], assigned |-> {} ]
        st1 == C11_ConfirmationPass(st0, C11_SPEC_ORDER, all_matches, words, lower)
    IN C11_FillPass(st1, C11_SPEC_ORDER, all_matches).fields

\* the labels of a field that the lexical cross-check accepts
C11_ConfirmedIn(field) ==
    { label \in Range(field) : Confirmed(label, CleanedWords, CleanedLower) }

\* C11: the four fields recognize returns are those of the confirmation pass
\* over cuisine, ingredients, meal_type, dietary followed by the fallback-fill
\* pass over the same categories
C11_FillAfterConfirmation ==
    Recognized =>
        \A words \in { CleanedWords } : \A lower \in { CleanedLower } :
        \A fields \in { C11_TwoPass([c \in CATEGORY_FIELDS |-> LabelsOf(matches[1][c])],
                                    words, lower) } :
            \A c \in CATEGORY_FIELDS : intents[1][c] = fields[c]

\* cuisine fallback-filled before ingredients was confirmed, and a candidate
\* of both ingredients and meal_type
C11_Witness ==
    /\ Recognized
    /\ intents[1].cuisine # <<>>
    /\ Range(LabelsOf(matches[1].ingredients)) \cap Range(LabelsOf(matches[1].meal_type)) # {}
    /\ C11_ConfirmedIn(intents[1].cuisine) = {}
    /\ C11_ConfirmedIn(intents[1].ingredients) # {}

\* set(re.findall(r'\w+', user_input.lower())) of the last turn, its
\* tag_filters and the cuisine keywords among its words
C12_UserWords == Range(FindWords(Lower(user_input)))

C12_TagFilters == TagFilters(intents[1])

C12_UserCuisines == C12_UserWords \cap cuisine_keywords

C12_HasTagIn(row, tag_filters) ==
    \E k \in 1..Len(row.tags) : Lower(row.tags[k]) \in Range(tag_filters)

C12_HasCuisineTag(row, user_cuisines) ==
    \E k \in 1..Len(row.tags) : \E cuisine \in user_cuisines :
        Contains(cuisine, Lower(row.tags[k]))

\* what the tag stage and the fallback cuisine stage together keep of a row
C12_Keeps(row, tag_filters, user_cuisines) ==
    IF tag_filters # <<>> THEN C12_HasTagIn(row, tag_filters)
    ELSE IF user_cuisines # {} THEN C12_HasCuisineTag(row, user_cuisines)
    ELSE TRUE

\* the ingredient and time stages
C12_LaterStages(df, user_words) ==
    TimeStage(IngredientLoop(df, IngredientFilters(intents[1], user_words)),
              intents[1].time_constraint).df

\* C12: with tag_filters non-empty every returned recipe has a tag equal,
\* ignoring case, to one of them and the cuisine-keyword fallback removes
\* nothing; the fallback applies exactly when tag_filters is empty and a word
\* of the utterance is a cuisine keyword, and then every returned recipe has
\* a tag containing such a keyword
C12_TagStage ==
    Filtered =>
        \A f \in { filtered[1] } : \A user_words \in { C12_UserWords } :
        \A tag_filters \in { C12_TagFilters } :
        \A user_cuisines \in { user_words \cap cuisine_keywords } :
           /\ tag_filters # <<>> =>
                \A k \in 1..Len(f) : C12_HasTagIn(f[k], tag_filters)
           /\ (tag_filters = <<>> /\ user_cuisines # {}) =>
                \A k \in 1..Len(f) : C12_HasCuisineTag(f[k], user_cuisines)
           /\ f = C12_LaterStages(
                      SelectSeq(recipes_df,
                          LAMBDA row : C12_Keeps(row, tag_filters, user_cuisines)),
                      user_words)

\* tag_filters non-empty and a cuisine keyword in the utterance: a recipe
\* without a tag containing the keyword is returned
C12_Witness ==
    /\ Filtered
    /\ C12_TagFilters # <<>>
    /\ Len(filtered[1]) < Len(recipes_df)
    /\ C12_UserCuisines # {}
    /\ \E k \in 1..Len(filtered[1]) :
          ~C12_HasCuisineTag(filtered[1][k], C12_UserCuisines)

\* the labels of the ingredients field that are tokens of the utterance
C13_Gated ==
    { label \in Range(intents[1].ingredients) : Lower(label) \in C12_UserWords }

C13_HasIngredient(row, label) ==
    \E k \in 1..Len(row.ingredients) : Contains(label, Lower(row.ingredients[k]))

C13_HasAll(row, gated) == \A label \in gated : C13_HasIngredient(row, label)

\* C13: every returned recipe has, for each label of the ingredients field
\* that is a token of the utterance, an ingredient containing it; the other
\* labels of the field remove nothing: the result is the time stage applied
\* to the rows the tag stages keep that have all the token labels
C13_IngredientStage ==
    Filtered =>
        \A f \in { filtered[1] } : \A gated \in { C13_Gated } :
        \A tag_filters \in { C12_TagFilters } : \A user_cuisines \in { C12_UserCuisines } :
           /\ \A k \in 1..Len(f) : \A label \in gated : C13_HasIngredient(f[k], label)
           /\ f = TimeStage(
                      SelectSeq(recipes_df, LAMBDA row :
                          /\ C12_Keeps(row, tag_filters, user_cuisines)
                          /\ C13_HasAll(row, gated)),
                      intents[1].time_constraint).df

\* two token labels: a recipe with one of them only is not returned, one
\* with both is
C13_Witness ==
    /\ Filtered
    /\ filtered[1] # <<>>
    /\ intents[1].time_constraint = <<>>
    /\ Cardinality(C13_Gated) >= 2
    /\ \E i \in 1..Len(recipes_df) :
          /\ recipes_df[i] \notin Range(filtered[1])
          /\ C12_Keeps(recipes_df[i], C12_TagFilters, C12_UserCuisines)
          /\ \E label \in C13_Gated : C13_HasIngredient(recipes_df[i], label)

\* the candidate labels of a category, and the labels the other fields hold
C14_Candidates(c) == LabelsOf(matches[1][c])

C14_Elsewhere(c) == UNION { Range(intents[1][d]) : d \in CATEGORY_FIELDS \ {c} }

\* the candidates of any category that the lexical cross-check accepts
C14_ConfirmedLabels ==
    { label \in UNION { Range(C14_Candidates(c)) : c \in CATEGORY_FIELDS } :
        Confirmed(label, CleanedWords, CleanedLower) }

\* every label of the field is a candidate, in the candidates' order
C14_InOrder(field, candidates) ==
    /\ Range(field) \subseteq Range(candidates)
    /\ \A j, k \in 1..Len(field) : j < k =>
          \E p, q \in 1..Len(candidates) :
              p < q /\ candidates[p] = field[j] /\ candidates[q] = field[k]

\* C14: each of the four fields is a subsequence of its category's candidate
\* list, which has at most 10 distinct labels of similarity above 0.7; the
\* field holds confirmed candidates only, or no confirmed one and exactly the
\* candidates no other field holds
C14_FieldsFromCandidates ==
    Recognized =>
        \A confirmed \in { C14_ConfirmedLabels } : \A c \in CATEGORY_FIELDS :
        \A field \in { intents[1][c] } : \A candidates \in { C14_Candidates(c) } :
           /\ Len(candidates) <= 10
           /\ \A p \in 1..Len(candidates) : matches[1][c][p][2] > 70
           /\ Injective(candidates)
           /\ C14_InOrder(field, candidates)
           /\ Len(field) <= 10
           /\ Injective(field)
           /\ \/ Range(field) \subseteq confirmed
              \/ /\ Range(field) \cap confirmed = {}
                 /\ field = SelectSeq(candidates,
                                LAMBDA label : label \notin C14_Elsewhere(c))

\* ten candidates out of a table of more labels, one of them confirmed and
\* alone in its field; another field filled with unconfirmed candidates
C14_Witness ==
    /\ Recognized
    /\ \E c \in CATEGORY_FIELDS :
          /\ Len(intent_labels[c]) > 10
          /\ Len(C14_Candidates(c)) = 10
          /\ intents[1][c] # <<>>
          /\ Range(intents[1][c]) \subseteq C14_ConfirmedLabels
          /\ Range(C14_Candidates(c)) \ (Range(intents[1][c]) \cup C14_Elsewhere(c)) # {}
    /\ \E d \in CATEGORY_FIELDS :
          /\ intents[1][d] # <<>>
          /\ Range(intents[1][d]) \cap C14_ConfirmedLabels = {}

=============================================================================
